---------------------------- MODULE Spec2Model ----------------------------
(***************************************************************************)
(* Legal Research API (src/index.js): the search pipeline of               *)
(* app.get('/api/search') and the helper functions it calls.               *)
(*                                                                         *)
(* JavaScript strings are sequences of one-character strings, so that      *)
(* template-string concatenation, toLowerCase and includes are computed    *)
(* rather than assumed.  JavaScript numbers that may be NaN are records    *)
(* [nan, v].                                                               *)
(***************************************************************************)
EXTENDS Integers, Sequences, FiniteSets, TLC

\* pipe:        one run of lines 73-78 of the search handler (merge,
\*              deduplicate, sort, paginate) on lists the adapters returned
\* world:       what the store, the three APIs and the scraped site answer,
\*              and whether the site's robots.txt disallows the search path
\* clock:       Date.now(), in units of 24 h
\* searchCache: the LRU cache, most recently used entry first
\* req:         the search requests in flight, one per connection
VARIABLES pipe, world, clock, searchCache, req, scraper, call

vars == <<pipe, world, clock, searchCache, req, scraper, call>>

(***************************************************************************)
(* Bounds of the model.                                                    *)
(***************************************************************************)
\* longest list of rows the store returns to the pipeline under PipeSpec
MaxStore == 2
\* largest page number and largest limit tried under PipeSpec
MaxPage == 3
MaxLimit == 3
\* the last instant of the clock
MaxClock == 2
\* the capacity of the cache: max of src/index.js 29, scaled down so that
\* the model evicts
CacheMax == 1
\* maxAge of src/index.js 30, in units of 24 h
maxAge == 1

(***************************************************************************)
(* Strings.                                                                *)
(***************************************************************************)
\* String.prototype.toLowerCase, on the alphabet of the model
LowerChar(c) ==
  CASE c = "A" -> "a" [] c = "B" -> "b" [] c = "C" -> "c" [] c = "L" -> "l"
    [] c = "R" -> "r" [] c = "S" -> "s" [] OTHER -> c

toLowerCase(s) == [i \in 1..Len(s) |-> LowerChar(s[i])]

\* String.prototype.includes
includes(s, sub) ==
  \E i \in 0..(Len(s) - Len(sub)) : SubSeq(s, i + 1, i + Len(sub)) = sub

\* the source tags the adapters write into record.source
SrcCourtListener == <<"C", "L">>
SrcCaselaw == <<"C", "A", "P">>
SrcPubMed == <<"P", "M">>
SrcStanford == <<"S", "L", "R">>

\* the value undefined: a field a body lacks, a parameter a request lacks;
\* a template literal renders it as the text undefined
Undefined == <<"undefined">>

(***************************************************************************)
(* Records.  court = << >> stands for a record without a court (undefined  *)
(* or ''), which are both falsy in `result.court || result.source`.  tier  *)
(* is a ghost field: the adapter the record object came from.              *)
(***************************************************************************)
Rec(id, title, content, court, date, source, tier) ==
  [id |-> id, title |-> title, content |-> content, court |-> court,
   date |-> date, source |-> source, tier |-> tier]

\* rows of legal_cases, as searchInternalDatabase returns them
StoreRows ==
  { Rec(<<"uuid-", "1">>, <<"a", "-", "b">>, <<"a">>, <<"c">>,
        "2000-01-04T15:33:20Z", SrcCourtListener, "store"),
    Rec(<<"stanford-", "75">>, <<"b">>, << >>, << >>,
        "Volume LXXV", SrcStanford, "store") }

\* formatCourtListenerResult
formatCourtListenerResult(result) ==
  Rec(<<"cl-", result.id>>, result.caseName, result.snippet, result.court_name,
      result.dateFiled, SrcCourtListener, "cl")

\* formatCaselawResult
formatCaselawResult(result) ==
  Rec(<<"cap-", result.id>>, result.name, result.preview, result.court.name,
      result.decision_date, SrcCaselaw, "cap")

\* formatPubMedResult
formatPubMedResult(result) ==
  Rec(<<"pm-", result.uid>>, result.title, result.description, << >>,
      result.pubdate, SrcPubMed, "pm")

\* response.data.results of the CourtListener search API
CourtListenerUpstream ==
  { [id |-> "1", caseName |-> <<"a">>, snippet |-> << >>,
     court_name |-> <<"b", "-", "c">>, dateFiled |-> "2020-01-02T21:20:00Z"],
    [id |-> "2", caseName |-> <<"a", "-", "b">>, snippet |-> <<"b">>,
     court_name |-> <<"c">>, dateFiled |-> "2020-01-02T21:20:00Z"] }

\* response.data.results of the Caselaw Access Project API
CaselawUpstream ==
  { [id |-> "1", name |-> <<"a">>, preview |-> <<"a">>,
     court |-> [name |-> <<"b", "-", "c">>], decision_date |-> "2000-01-04T15:33:20Z"],
    [id |-> "2", name |-> <<"A">>, preview |-> <<"b">>,
     court |-> [name |-> <<"c">>], decision_date |-> ""] }

\* detailsResponse.data.result of PubMed esummary
PubMedUpstream ==
  { [uid |-> "1", title |-> <<"b">>, description |-> <<"a">>,
     pubdate |-> "2020-01-02T21:20:00Z"] }

\* the .search-result elements scrapeAllowedSources parses
StanfordUpstream ==
  { Rec(<<"stanford-", "75">>, <<"b">>, << >>, << >>, "Volume LXXV", SrcStanford, "web") }

\* the query strings tried
Queries == { <<"a">>, <<"b">> }

\* sequences over S of length at most n
RECURSIVE SeqsUpTo(_, _)
SeqsUpTo(S, n) ==
  IF n = 0 THEN { << >> }
  ELSE LET shorter == SeqsUpTo(S, n - 1)
       IN  shorter \cup { Append(s, x) : s \in { t \in shorter : Len(t) = n - 1 }, x \in S }

\* at most one element of S, as a list
AtMostOne(S) == { << >> } \cup { <<x>> : x \in S }

(***************************************************************************)
(* deduplicateResults (src/index.js 394-403).                              *)
(***************************************************************************)
\* result.court || result.source
CourtOrSource(result) ==
  IF result.court # << >> THEN result.court ELSE result.source

\* `${result.title}-${result.court || result.source}`
DedupKey(result) == result.title \o <<"-">> \o CourtOrSource(result)

RECURSIVE DedupFilter(_, _)
DedupFilter(results, seen) ==
  IF results = << >> THEN << >>
  ELSE LET key == DedupKey(Head(results))
       IN  IF key \in seen
           THEN DedupFilter(Tail(results), seen)
           ELSE <<Head(results)>> \o DedupFilter(Tail(results), seen \cup {key})

\* a filter callback with its two return values exchanged
RECURSIVE DedupFilterSwapped(_, _)
DedupFilterSwapped(results, seen) ==
  IF results = << >> THEN << >>
  ELSE LET key == DedupKey(Head(results))
       IN  IF key \in seen
           THEN <<Head(results)>> \o DedupFilterSwapped(Tail(results), seen)
           ELSE DedupFilterSwapped(Tail(results), seen \cup {key})

deduplicateResultsSwapped(results) == DedupFilterSwapped(results, {})

deduplicateResults(results) == DedupFilter(results, {})

(***************************************************************************)
(* sortResultsByRelevance (src/index.js 405-427).                          *)
(*                                                                         *)
(* Times are in units of 10^9 ms and total scores in tenths, so that       *)
(* total = titleScore + contentScore + getTime / 10^10 is the integer      *)
(* 10 * (titleScore + contentScore) + getTime / 10^9; the dates of the     *)
(* model are multiples of 10^9 ms, so nothing is rounded.                  *)
(***************************************************************************)
Num(v) == [nan |-> FALSE, v |-> v]

NaN == [nan |-> TRUE, v |-> 0]

\* new Date(date).getTime(): NaN for a string that is not a date
getTime(date) ==
  CASE date = "2000-01-04T15:33:20Z" -> Num(947)
    [] date = "2020-01-02T21:20:00Z" -> Num(1578)
    [] OTHER -> NaN

titleScore(a, query) ==
  IF includes(toLowerCase(a.title), toLowerCase(query)) THEN 10 ELSE 0

contentScore(a, query) ==
  IF includes(toLowerCase(a.content), toLowerCase(query)) THEN 5 ELSE 0

\* a.date ? new Date(a.date).getTime() : 0
dateScore(a) == IF a.date # "" THEN getTime(a.date) ELSE Num(0)

totalScore(a, query) ==
  IF dateScore(a).nan THEN NaN
  ELSE Num(10 * (titleScore(a, query) + contentScore(a, query)) + dateScore(a).v)

\* the comparator's return value, totalScoreB - totalScoreA
comparefn(a, b, query) ==
  IF totalScore(a, query).nan \/ totalScore(b, query).nan THEN NaN
  ELSE Num(totalScore(b, query).v - totalScore(a, query).v)

\* Array.prototype.sort reads a NaN from the comparator as +0
SortCompare(a, b, query) ==
  IF comparefn(a, b, query).nan THEN 0 ELSE comparefn(a, b, query).v

\* the comparator is a consistent comparator for the elements of results
ConsistentComparator(results, query) ==
  LET S == { results[i] : i \in 1..Len(results) }
      c(a, b) == SortCompare(a, b, query)
  IN  \A a \in S : \A b \in S :
        /\ c(a, a) = 0
        /\ (c(a, b) = 0) = (c(b, a) = 0)
        /\ (c(a, b) < 0) = (c(b, a) > 0)
        /\ \A d \in S :
             /\ (c(a, b) = 0 /\ c(b, d) = 0) => c(a, d) = 0
             /\ (c(a, b) < 0 /\ c(b, d) < 0) => c(a, d) < 0
             /\ (c(a, b) > 0 /\ c(b, d) > 0) => c(a, d) > 0

RECURSIVE InsertStable(_, _, _)
InsertStable(sorted, x, query) ==
  IF sorted = << >> THEN <<x>>
  ELSE IF SortCompare(x, Head(sorted), query) < 0
       THEN <<x>> \o sorted
       ELSE <<Head(sorted)>> \o InsertStable(Tail(sorted), x, query)

RECURSIVE StableSort(_, _)
StableSort(results, query) ==
  IF results = << >> THEN << >>
  ELSE InsertStable(StableSort(SubSeq(results, 1, Len(results) - 1), query),
                    results[Len(results)], query)

RECURSIVE PermutationsOf(_, _)
PermutationsOf(results, idx) ==
  IF idx = {} THEN { << >> }
  ELSE UNION { { <<results[i]>> \o p : p \in PermutationsOf(results, idx \ {i}) } : i \in idx }

\* The orders results.sort(comparator) may leave the array in: the stable
\* sort when the comparator is consistent, implementation-defined otherwise.
sortResultsByRelevance(results, query) ==
  IF ConsistentComparator(results, query)
  THEN { StableSort(results, query) }
  ELSE PermutationsOf(results, 1..Len(results))

\* a.title.toLowerCase() and a.content.toLowerCase() throw a TypeError for a
\* record whose title or content is undefined; the comparator runs once the
\* array holds two records
sortThrows(results, query) ==
  /\ Len(results) >= 2
  /\ \E i \in 1..Len(results) :
       results[i].title = Undefined \/ results[i].content = Undefined

(***************************************************************************)
(* paginateResults (src/index.js 429-442).                                 *)
(***************************************************************************)
Min(a, b) == IF a < b THEN a ELSE b

\* Array.prototype.slice(start, end) for 0 <= start, 0 <= end
slice(results, start, end) == SubSeq(results, start + 1, Min(end, Len(results)))

\* Math.ceil(n / d) for n >= 0, d > 0
ceilDiv(n, d) == (n + d - 1) \div d

\* a slice that ends one element early
paginateResultsShort(results, page, limit) ==
  [results |-> slice(results, (page - 1) * limit, page * limit - 1),
   pagination |-> [total |-> Len(results), page |-> page, limit |-> limit,
                   pages |-> ceilDiv(Len(results), limit)]]

paginateResults(results, page, limit) ==
  [results |-> slice(results, (page - 1) * limit, page * limit),
   pagination |-> [total |-> Len(results), page |-> page, limit |-> limit,
                   pages |-> ceilDiv(Len(results), limit)]]

\* apiResults.flat()
flat(apiResults) == apiResults[1] \o apiResults[2] \o apiResults[3]

\* [...dbResults, ...apiResults.flat(), ...webResults]
mergeResults(dbResults, apiResults, webResults) ==
  dbResults \o flat(apiResults) \o webResults

\* the gate with <= in place of <
needsScrapingInclusive(dbResults, apiResults, limit) ==
  Len(dbResults) + Len(flat(apiResults)) <= limit

\* dbResults.length + apiResults.flat().length < limit
needsScraping(dbResults, apiResults, limit) ==
  Len(dbResults) + Len(flat(apiResults)) < limit


(***************************************************************************)
(* The search handler, app.get('/api/search') (src/index.js 43-89), with   *)
(* the adapters it awaits.                                                 *)
(***************************************************************************)
\* the connections on which requests arrive
ReqIds == {1, 2}

\* String(n) for the page numbers and limits of the model
numberToString(n) == <<"0", "1", "2", "3", "4", "5", "6", "7", "8", "9">>[n + 1]

\* the (query, filter, page, limit) of the requests that arrive
Tuples ==
  { [query |-> <<"a">>, filter |-> Undefined, page |-> 1, limit |-> 1],
    [query |-> <<"a">>, filter |-> Undefined, page |-> 1, limit |-> 2] }

\* `${query}-${filter}-${page}-${limit}`
cacheKeyOf(query, filter, page, limit) ==
  query \o <<"-">> \o filter \o <<"-">> \o numberToString(page) \o <<"-">> \o numberToString(limit)

\* a world in which no upstream has anything
Sources == {"store", "cl", "cap", "pm", "web"}

\* fault[s] is how the upstream of source s answers: "ok"; "error", a network
\* or API error; "noresults", a body without the list of results; "nofield",
\* a body whose results lack a field
QuietWorld ==
  [rows |-> << >>, cl |-> << >>, cap |-> << >>, pm |-> << >>, web |-> << >>,
   robotsDisallow |-> FALSE, conns |-> 1, fault |-> [s \in Sources |-> "ok"]]

\* the records the upstreams of the worlds below hold
StoreRow == CHOOSE r \in StoreRows : r.court # << >>

CourtListenerCase == CHOOSE r \in CourtListenerUpstream : r.id = "1"

PubMedArticle == CHOOSE r \in PubMedUpstream : TRUE

StanfordArticle == CHOOSE r \in StanfordUpstream : TRUE

\* a CourtListener result without a snippet
SnippetlessCase == [CourtListenerCase EXCEPT !.snippet = Undefined]

\* the worlds of the model: an upstream has its record, or has nothing (or
\* fails, which its adapter turns into an empty list); conns is the number
\* of connections the clients use at once
Worlds ==
  { [QuietWorld EXCEPT !.web = <<StanfordArticle>>, !.robotsDisallow = TRUE],
    [QuietWorld EXCEPT !.rows = <<StoreRow>>, !.web = <<StanfordArticle>>,
                       !.conns = 2],
    [QuietWorld EXCEPT !.cl = <<CourtListenerCase>>, !.robotsDisallow = TRUE],
    [QuietWorld EXCEPT !.rows = <<StoreRow>>, !.pm = <<PubMedArticle>>,
                       !.web = <<StanfordArticle>>, !.robotsDisallow = TRUE],
    [QuietWorld EXCEPT !.rows = <<StoreRow>>, !.cl = <<CourtListenerCase>>,
                       !.pm = <<PubMedArticle>>],
    [QuietWorld EXCEPT !.rows = <<StoreRow>>, !.cl = <<CourtListenerCase>>,
                       !.pm = <<PubMedArticle>>, !.web = <<StanfordArticle>>,
                       !.fault = [s \in Sources |->
                                    CASE s = "cl" -> "error"
                                      [] s = "pm" -> "noresults"
                                      [] s = "web" -> "error"
                                      [] OTHER -> "ok"]],
    [QuietWorld EXCEPT !.rows = <<StoreRow>>, !.cl = <<CourtListenerCase>>,
                       !.pm = <<PubMedArticle>>,
                       !.fault = [s \in Sources |->
                                    IF s = "store" THEN "error" ELSE "ok"]],
    [QuietWorld EXCEPT !.rows = <<StoreRow>>, !.cl = <<SnippetlessCase>>,
                       !.fault = [s \in Sources |->
                                    IF s = "cl" THEN "nofield" ELSE "ok"]] }

MapSeq(F(_), list) == [i \in 1..Len(list) |-> F(list[i])]

\* no page: the response of a request that has not answered
NoPage ==
  [results |-> << >>,
   pagination |-> [total |-> 0, page |-> 0, limit |-> 0, pages |-> 0]]

IdleRequest ==
  [pc |-> "idle", query |-> << >>, filter |-> << >>, page |-> 0, limit |-> 0,
   cacheKey |-> << >>, dbResults |-> << >>, pending |-> {},
   apiResults |-> << << >>, << >>, << >> >>, webResults |-> << >>,
   response |-> NoPage, status |-> 0,
   \* ghost fields
   lookup |-> "none", calls |-> {}, doneAtScrape |-> {}, fetches |-> {},
   outOfOrder |-> FALSE, allResults |-> << >>,
   http |-> [a \in {1, 2, 3} |-> [requests |-> 0, acquired |-> FALSE]]]

(***************************************************************************)
(* searchCache: new LRUCache({max, maxAge}) (src/index.js 28-31).  An      *)
(* entry is [key, value, now]; sent and evicted are ghost fields: the      *)
(* response of the request that stored the entry, and the entries that     *)
(* storing it pushed out.                                                  *)
(***************************************************************************)
EntriesOf(cache, key) == SelectSeq(cache, LAMBDA e : e.key = key)

Without(cache, key) == SelectSeq(cache, LAMBDA e : e.key # key)

\* an entry that never goes stale
isStaleNever(entry, now) == FALSE

\* maxAge: an entry is stale once it is older than maxAge
isStale(entry, now) == now - entry.now > maxAge

\* searchCache.get(key): a stale entry is deleted and not returned; a live
\* one becomes the most recently used
cacheGet(cache, key, now) ==
  LET hits == EntriesOf(cache, key)
  IN  IF hits = << >> THEN [hit |-> FALSE, value |-> NoPage, cache |-> cache]
      ELSE IF isStale(hits[1], now)
           THEN [hit |-> FALSE, value |-> NoPage, cache |-> Without(cache, key)]
           ELSE [hit |-> TRUE, value |-> hits[1].value,
                 cache |-> hits \o Without(cache, key)]

\* searchCache.set(key, value): the entry becomes the most recently used and
\* the least recently used ones beyond max are dropped
cacheSet(cache, key, value, now) ==
  LET grown == <<[key |-> key, value |-> value, now |-> now, sent |-> NoPage,
                  evicted |-> {}, tuple |-> << >>]>> \o Without(cache, key)
      kept == SubSeq(grown, 1, Min(Len(grown), CacheMax))
      dropped == { [key |-> grown[i].key, now |-> grown[i].now] :
                     i \in (Len(kept) + 1)..Len(grown) }
  IN  [i \in 1..Len(kept) |->
         IF i = 1 THEN [kept[1] EXCEPT !.evicted = dropped] ELSE kept[i]]

\* Ghost: the entry of key records the response its request sent.
WithSent(cache, key, response) ==
  [i \in 1..Len(cache) |->
     IF cache[i].key = key THEN [cache[i] EXCEPT !.sent = response] ELSE cache[i]]

\* Ghost: the entry of key records the (query, filter, page, limit) of the
\* request that stored it.
WithTuple(cache, key, tuple) ==
  [i \in 1..Len(cache) |->
     IF cache[i].key = key THEN [cache[i] EXCEPT !.tuple = tuple] ELSE cache[i]]

\* Ghost: what a lookup of key finds at time now.  "live": an entry no
\* older than maxAge; "expired": an older one; "evicted": none, though one
\* stored no longer than maxAge ago was pushed out; "absent": none.
LookupKind(cache, key, now) ==
  LET hits == EntriesOf(cache, key)
  IN  IF hits # << >>
      THEN IF now - hits[1].now <= maxAge THEN "live" ELSE "expired"
      ELSE IF \E i \in 1..Len(cache) : \E d \in cache[i].evicted :
                d.key = key /\ now - d.now <= maxAge
           THEN "evicted" ELSE "absent"

(***************************************************************************)
(* The adapters.                                                           *)
(***************************************************************************)
\* searchInternalDatabase: .range((page - 1) * limit, page * limit - 1) of
\* the matching rows; an error is logged and gives []
searchInternalDatabase(query, filter, page, limit) ==
  IF world.fault["store"] # "ok" THEN << >>
  ELSE slice(world.rows, (page - 1) * limit, page * limit)

ApiName(a) == <<"cl", "cap", "pm">>[a]

\* searchCourtListener, searchCaselaw, searchPubMed: the formatted upstream
\* results; an error, and the TypeError of mapping a body that has no list
\* of results, are caught, logged and give []
searchApi(a) ==
  IF world.fault[ApiName(a)] \in {"error", "noresults"} THEN << >>
  ELSE CASE a = 1 -> MapSeq(formatCourtListenerResult, world.cl)
         [] a = 2 -> MapSeq(formatCaselawResult, world.cap)
         [] OTHER -> MapSeq(formatPubMedResult, world.pm)

\* Ghost: the HTTP requests one call of adapter a issues, and whether the
\* adapter acquired a rate limiter before them.  searchCourtListener awaits
\* courtListenerLimit and searchCaselaw caseAccessLimit, then each issues
\* one GET; searchPubMed awaits no limiter and issues the esearch GET and,
\* when that gave ids, the esummary GET.
apiHttp(a) ==
  CASE a = 1 -> [requests |-> 1, acquired |-> TRUE]
    [] a = 2 -> [requests |-> 1, acquired |-> TRUE]
    [] OTHER -> [requests |-> IF world.fault["pm"] = "ok" /\ world.pm # << >>
                              THEN 2 ELSE 1,
                 acquired |-> FALSE]

\* Promise.all: the value of the promise at index a goes to index a of the
\* array, whenever it settles
settleInArrivalOrder(apiResults, pending, a, value) ==
  [apiResults EXCEPT ![4 - Cardinality(pending)] = value]

settle(apiResults, pending, a, value) == [apiResults EXCEPT ![a] = value]

\* scrapeAllowedSources of src/index.js: the parsed .search-result elements;
\* an error is caught, logged and gives []
scrapeAllowedSources(query, filter) ==
  IF world.fault["web"] # "ok" THEN << >> ELSE world.web

\* the URL scrapeAllowedSources of src/index.js fetches; allowed is whether a
\* robots check that answered allowed came before the fetch
StanfordFetch ==
  [host |-> "lawreview.stanford.edu", path |-> "/search", allowed |-> FALSE]

(***************************************************************************)
(* The handler.                                                            *)
(***************************************************************************)
\* lines 45-57: the cache key, the cache lookup, and on a miss the call of
\* searchInternalDatabase.  A request arrives on the first connection that
\* is free: its previous request, if any, has been answered.
Receive(r, t) ==
  /\ req[r].pc \in {"idle", "done"}
  /\ r <= world.conns
  /\ \A other \in ReqIds : other < r => req[other].pc \notin {"idle", "done"}
  /\ LET key == cacheKeyOf(t.query, t.filter, t.page, t.limit)
         got == cacheGet(searchCache, key, clock)
         base == [IdleRequest EXCEPT !.query = t.query, !.filter = t.filter,
                    !.page = t.page, !.limit = t.limit, !.cacheKey = key,
                    !.lookup = LookupKind(searchCache, key, clock)]
     IN  /\ searchCache' = got.cache
         /\ req' = [req EXCEPT ![r] =
                      IF got.hit
                      THEN [base EXCEPT !.pc = "done", !.response = got.value,
                                        !.status = 200]
                      ELSE [base EXCEPT !.pc = "db", !.calls = {"store"}]]
  /\ UNCHANGED <<pipe, world, clock, scraper, call>>

\* lines 57-64: the store answers; the three API searches start
DbReturn(r) ==
  /\ req[r].pc = "db"
  /\ req' = [req EXCEPT ![r] =
               [@ EXCEPT !.pc = "api",
                  !.dbResults = searchInternalDatabase(req[r].query, req[r].filter,
                                                       req[r].page, req[r].limit),
                  !.pending = {1, 2, 3},
                  !.calls = @ \cup {"cl", "cap", "pm"}]]
  /\ UNCHANGED <<pipe, world, clock, searchCache, scraper, call>>

\* one of the three promises of Promise.all settles
ApiReturn(r, a) ==
  /\ req[r].pc = "api"
  /\ a \in req[r].pending
  /\ req' = [req EXCEPT ![r] =
               [@ EXCEPT !.pending = @ \ {a},
                  !.apiResults = settle(@, req[r].pending, a, searchApi(a)),
                  !.outOfOrder = @ \/ \E b \in req[r].pending : b < a,
                  !.http = [@ EXCEPT ![a] = apiHttp(a)]]]
  /\ UNCHANGED <<pipe, world, clock, searchCache, scraper, call>>

\* lines 72-88 for request q, whose adapters have all answered: merge,
\* deduplicate, sort, paginate, store the page in the cache, start the
\* persistence, send the page; when the sort throws, the catch of lines
\* 85-88 sends status 500
Finish(r, q) ==
  LET allResults == mergeResults(q.dbResults, q.apiResults, q.webResults)
      uniqueResults == deduplicateResults(allResults)
  IN  IF sortThrows(uniqueResults, q.query)
      THEN /\ req' = [req EXCEPT ![r] =
                        [q EXCEPT !.pc = "done", !.status = 500,
                                  !.allResults = allResults]]
           /\ UNCHANGED searchCache
      ELSE \E sortedResults \in sortResultsByRelevance(uniqueResults, q.query) :
        LET paginatedResults == paginateResults(sortedResults, q.page, q.limit)
        IN  /\ searchCache' =
                 WithTuple(
                   WithSent(cacheSet(searchCache, q.cacheKey, paginatedResults, clock),
                            q.cacheKey, paginatedResults),
                   q.cacheKey, <<q.query, q.filter, q.page, q.limit>>)
            /\ req' = [req EXCEPT ![r] =
                         [q EXCEPT !.pc = "done", !.response = paginatedResults,
                                   !.status = 200, !.allResults = allResults]]

\* lines 66-70: Promise.all has resolved; scrape if the store and the APIs
\* gave fewer than limit records, else finish
Gate(r) ==
  /\ req[r].pc = "api"
  /\ req[r].pending = {}
  /\ IF needsScraping(req[r].dbResults, req[r].apiResults, req[r].limit)
     THEN /\ req' = [req EXCEPT ![r] =
                       [@ EXCEPT !.pc = "scrape", !.calls = @ \cup {"web"},
                          !.doneAtScrape = req[r].calls \ {ApiName(a) : a \in req[r].pending}]]
          /\ UNCHANGED searchCache
     ELSE Finish(r, req[r])
  /\ UNCHANGED <<pipe, world, clock, scraper, call>>

\* scrapeAllowedSources of src/index.js 305-339: after the rate limiter, a
\* GET of the Stanford search page, with no robots check; an error gives []
ScrapeReturn(r) ==
  /\ req[r].pc = "scrape"
  /\ Finish(r, [req[r] EXCEPT !.webResults =
                                 scrapeAllowedSources(req[r].query, req[r].filter),
                              !.fetches = @ \cup {StanfordFetch}])
  /\ UNCHANGED <<pipe, world, clock, scraper, call>>

\* time passes
Tick ==
  /\ clock < MaxClock
  /\ clock' = clock + 1
  /\ UNCHANGED <<pipe, world, searchCache, req, scraper, call>>

Init ==
  /\ world \in Worlds
  /\ clock = 0
  /\ searchCache = << >>
  /\ req = [r \in ReqIds |-> IdleRequest]
  /\ pipe = [pc |-> "off"]
  /\ scraper = [pc |-> "off"]
  /\ call = [pc |-> "off"]

Next ==
  \/ \E r \in ReqIds : \E t \in Tuples : Receive(r, t)
  \/ \E r \in ReqIds : DbReturn(r)
  \/ \E r \in ReqIds : \E a \in {1, 2, 3} : ApiReturn(r, a)
  \/ \E r \in ReqIds : Gate(r)
  \/ \E r \in ReqIds : ScrapeReturn(r)
  \/ Tick

Spec == Init /\ [][Next]_vars

(***************************************************************************)
(* The search handler on requests whose query and filter hold hyphens, the *)
(* character that joins the parts of the cache key (src/index.js 48), on   *)
(* one connection.                                                         *)
(***************************************************************************)
KeyTuples ==
  { [query |-> <<"a", "-", "b">>, filter |-> <<"c">>, page |-> 1, limit |-> 1],
    [query |-> <<"a">>, filter |-> <<"b", "-", "c">>, page |-> 1, limit |-> 1],
    [query |-> <<"a">>, filter |-> Undefined, page |-> 1, limit |-> 1],
    [query |-> <<"a">>, filter |-> Undefined, page |-> 2, limit |-> 1] }

KeyWorlds ==
  { [QuietWorld EXCEPT !.rows = <<StoreRow>>, !.cl = <<CourtListenerCase>>],
    [QuietWorld EXCEPT !.web = <<StanfordArticle>>] }

KeyInit ==
  /\ world \in KeyWorlds
  /\ clock = 0
  /\ searchCache = << >>
  /\ req = [r \in ReqIds |-> IdleRequest]
  /\ pipe = [pc |-> "off"]
  /\ scraper = [pc |-> "off"]
  /\ call = [pc |-> "off"]

KeyNext ==
  \/ \E r \in ReqIds : \E t \in KeyTuples : Receive(r, t)
  \/ \E r \in ReqIds : DbReturn(r)
  \/ \E r \in ReqIds : \E a \in {1, 2, 3} : ApiReturn(r, a)
  \/ \E r \in ReqIds : Gate(r)
  \/ \E r \in ReqIds : ScrapeReturn(r)
  \/ Tick

KeySpec == KeyInit /\ [][KeyNext]_vars

(***************************************************************************)
(* The search handler on requests for the pages of one query, on one       *)
(* connection, over a store that holds more rows than a page.              *)
(***************************************************************************)
PageTuples ==
  { [query |-> <<"a">>, filter |-> Undefined, page |-> page, limit |-> limit] :
      page \in 1..MaxPage, limit \in {1} }

PageWorlds ==
  { [QuietWorld EXCEPT !.rows = rows, !.cl = cl] :
      rows \in { s \in SeqsUpTo(StoreRows, MaxStore) :
                   \A i, j \in 1..Len(s) : s[i] = s[j] => i = j },
      cl \in {<< >>, <<CourtListenerCase>>} }

PageInit ==
  /\ world \in PageWorlds
  /\ clock = 0
  /\ searchCache = << >>
  /\ req = [r \in ReqIds |-> IdleRequest]
  /\ pipe = [pc |-> "off"]
  /\ scraper = [pc |-> "off"]
  /\ call = [pc |-> "off"]

PageNext ==
  \/ \E r \in ReqIds : \E t \in PageTuples : Receive(r, t)
  \/ \E r \in ReqIds : DbReturn(r)
  \/ \E r \in ReqIds : \E a \in {1, 2, 3} : ApiReturn(r, a)
  \/ \E r \in ReqIds : Gate(r)
  \/ \E r \in ReqIds : ScrapeReturn(r)
  \/ Tick

PageSpec == PageInit /\ [][PageNext]_vars

(***************************************************************************)
(* The pipeline of app.get('/api/search'), src/index.js 72-78, on every    *)
(* combination of adapter results within the bounds.                       *)
(***************************************************************************)
PipeInit ==
  \E query \in Queries, limit \in 1..MaxLimit,
     dbResults \in SeqsUpTo(StoreRows, MaxStore),
     cl \in AtMostOne({ formatCourtListenerResult(r) : r \in CourtListenerUpstream }),
     cap \in AtMostOne({ formatCaselawResult(r) : r \in CaselawUpstream }),
     pm \in AtMostOne({ formatPubMedResult(r) : r \in PubMedUpstream }),
     webResults \in AtMostOne(StanfordUpstream) :
    /\ webResults # << >> => needsScraping(dbResults, <<cl, cap, pm>>, limit)
    /\ world = QuietWorld
    /\ clock = 0
    /\ searchCache = << >>
    /\ req = [r \in ReqIds |-> IdleRequest]
    /\ scraper = [pc |-> "off"]
    /\ call = [pc |-> "off"]
    /\ pipe = [pc |-> "merge", query |-> query, page |-> 1, limit |-> limit,
               dbResults |-> dbResults, apiResults |-> <<cl, cap, pm>>,
               webResults |-> webResults, allResults |-> << >>,
               deduped |-> << >>, uniqueResults |-> << >>,
               sortedResults |-> << >>,
               paginatedResults |-> NoPage,
               response |-> NoPage, status |-> 0,
               sinkArgument |-> << >>, newResults |-> << >>,
               sink |-> "none", upserted |-> << >>]

\* line 73
PipeMerge ==
  /\ pipe.pc = "merge"
  /\ pipe' = [pipe EXCEPT !.pc = "dedup",
                !.allResults = mergeResults(pipe.dbResults, pipe.apiResults,
                                            pipe.webResults)]

\* line 74; deduped is a ghost copy of the new array, which line 75 sorts
\* in place
PipeDedup ==
  /\ pipe.pc = "dedup"
  /\ pipe' = [pipe EXCEPT !.pc = "sort",
                !.uniqueResults = deduplicateResults(pipe.allResults),
                !.deduped = deduplicateResults(pipe.allResults)]

\* line 75: Array.prototype.sort sorts uniqueResults in place and returns it
PipeSort ==
  /\ pipe.pc = "sort"
  /\ \E sorted \in sortResultsByRelevance(pipe.uniqueResults, pipe.query) :
       pipe' = [pipe EXCEPT !.pc = "paginate",
                  !.uniqueResults = sorted, !.sortedResults = sorted]

\* line 78, for each page the request may have asked for
PipePaginate ==
  /\ pipe.pc = "paginate"
  /\ \E page \in 1..MaxPage :
       pipe' = [pipe EXCEPT !.pc = "done", !.page = page,
                  !.paginatedResults =
                     paginateResults(pipe.sortedResults, page, pipe.limit)]

\* result.inDatabase: undefined for a record that has no such property
inDatabase(result) ==
  IF "inDatabase" \in DOMAIN result THEN result.inDatabase ELSE Undefined

\* storeResultsInDatabase line 205: results.filter(result => !result.inDatabase)
newResultsOf(results) ==
  SelectSeq(results, LAMBDA result : inDatabase(result) \in {Undefined, FALSE})

\* the page in place of the deduplicated records
storeArgumentPage(uniqueResults, paginatedResults) == paginatedResults.results

\* the argument of storeResultsInDatabase at line 82
storeArgument(uniqueResults, paginatedResults) == uniqueResults

\* lines 82-84: storeResultsInDatabase(uniqueResults) runs up to its first
\* await, which is the upsert of newResults unless there are none (lines
\* 205-209); the handler does not await it and sends the page
PipeRespond ==
  /\ pipe.pc = "done"
  /\ LET argument == storeArgument(pipe.uniqueResults, pipe.paginatedResults)
     IN  pipe' = [pipe EXCEPT !.pc = "sent",
                    !.sinkArgument = argument,
                    !.newResults = newResultsOf(argument),
                    !.sink = IF newResultsOf(argument) = << >> THEN "none" ELSE "pending",
                    !.response = pipe.paginatedResults, !.status = 200]

\* storeResultsInDatabase lines 211-225: the upsert returns; an error is
\* logged
PipeSinkSettle ==
  /\ pipe.pc = "sent"
  /\ pipe.sink = "pending"
  /\ \E ok \in BOOLEAN :
       pipe' = [pipe EXCEPT !.pc = "settled",
                  !.sink = IF ok THEN "stored" ELSE "logged",
                  !.upserted = IF ok THEN pipe.newResults ELSE << >>]

PipeNext ==
  /\ PipeMerge \/ PipeDedup \/ PipeSort \/ PipePaginate \/ PipeRespond
       \/ PipeSinkSettle
  /\ UNCHANGED <<world, clock, searchCache, req, scraper, call>>

PipeSpec == PipeInit /\ [][PipeNext]_vars

(***************************************************************************)
(* The scraper module (src/unnamed/part_001): getRobotsTxt,                *)
(* isScrapingAllowed, getRateLimiter and the scrapers that call them.      *)
(* Under ScraperSpec the clock counts units of 60 s, the timeUnit of the   *)
(* limiters of the domains below.                                          *)
(***************************************************************************)
\* the callers that scrape at once
Callers == {1, 2}

\* how many scrapes one caller makes
MaxCalls == 2

\* the keys of the scrapingRateLimits table
scrapingRateLimits ==
  { "lawreview.stanford.edu", "harvardlawreview.org", "yalelawjournal.org",
    "supremecourt.gov", "scholar.google.com" }

\* the scrapes of the model: a search of the Stanford Law Review, and the
\* details of a case whose url formatSupremeCourtResults built (line 173)
ScrapeOps ==
  { [fn |-> "scrapeStanfordLawReview", domain |-> "lawreview.stanford.edu",
     path |-> "/search"],
    [fn |-> "scrapeCaseDetails", domain |-> "www.supremecourt.gov",
     path |-> "/opinions"] }

Domains == { op.domain : op \in ScrapeOps }

NoOp == [fn |-> "none", domain |-> "none", path |-> "none"]

\* policy objects; by names the call of getRobotsTxt that created the object
NoPolicy == [kind |-> "none", by |-> <<0, 0>>]

\* the parser of a fetched robots.txt, and the fallback of lines 48-52
NewPolicy(ok, by) == [kind |-> IF ok THEN "parsed" ELSE "fallback", by |-> by]

\* policy.isAllowed(path): the fallback allows every path
isAllowed(policy, path) ==
  IF policy.kind = "fallback" THEN TRUE ELSE ~world.robotsDisallow

\* policy.getCrawlDelay() of the fallback
FallbackCrawlDelay == 60

\* limiter instances: the one of the table, or one made by a call
NoLimiter == [table |-> FALSE, domain |-> "none", by |-> <<0, 0>>]

\* getRateLimiter(domain): the table's limiter, or for a domain the table
\* lacks a new RateLimit(1, {timeUnit: 60000})
getRateLimiter(domain, by) ==
  IF domain \in scrapingRateLimits
  THEN [table |-> TRUE, domain |-> domain, by |-> <<0, 0>>]
  ELSE [table |-> FALSE, domain |-> domain, by |-> by]

IdleCall ==
  [pc |-> "idle", k |-> 0, op |-> NoOp, policy |-> NoPolicy,
   limiter |-> NoLimiter, result |-> "none",
   \* ghost: the call began after a getRobotsTxt of its domain had returned;
   \* the call fetched robots.txt
   late |-> FALSE, fetchedRobots |-> FALSE]

\* a scraper is called: lines 194-196, 306-308
StartScrape(c, op) ==
  /\ scraper.pc = "on"
  /\ scraper.calls[c].pc \in {"idle", "done"}
  /\ scraper.calls[c].k < MaxCalls
  /\ \A other \in Callers : other < c => scraper.calls[other].pc \notin {"idle", "done"}
  /\ scraper' = [scraper EXCEPT !.calls[c] =
                   [IdleCall EXCEPT !.pc = "robots", !.k = scraper.calls[c].k + 1,
                                    !.op = op]]
  /\ UNCHANGED <<pipe, world, clock, searchCache, req, call>>

\* getRobotsTxt lines 30-36: the cached policy, else the GET of robots.txt
RobotsLookup(c) ==
  LET q == scraper.calls[c]
      cached == scraper.robotsTxtCache[q.op.domain]
      late == scraper.returned[q.op.domain] # NoPolicy
  IN  /\ scraper.pc = "on"
      /\ q.pc = "robots"
      /\ scraper' =
           IF cached # NoPolicy
           THEN [scraper EXCEPT !.calls[c] =
                   [q EXCEPT !.pc = "check", !.policy = cached, !.late = late]]
           ELSE [scraper EXCEPT !.calls[c] =
                   [q EXCEPT !.pc = "robotsFetch", !.late = late,
                             !.fetchedRobots = TRUE]]
      /\ UNCHANGED <<pipe, world, clock, searchCache, req, call>>

\* getRobotsTxt lines 38-56: the GET returns and the body parses (ok), or
\* either fails; the new policy is cached and returned
RobotsReturn(c, ok) ==
  LET q == scraper.calls[c]
      policy == NewPolicy(ok, <<c, q.k>>)
  IN  /\ scraper.pc = "on"
      /\ q.pc = "robotsFetch"
      /\ scraper' = [scraper EXCEPT
                       !.robotsTxtCache[q.op.domain] = policy,
                       !.returned[q.op.domain] = IF @ = NoPolicy THEN policy ELSE @,
                       !.calls[c] = [q EXCEPT !.pc = "check", !.policy = policy]]
      /\ UNCHANGED <<pipe, world, clock, searchCache, req, call>>

\* isScrapingAllowed answers; lines 198-203, 310-315: a scrape that is not
\* allowed returns nothing, an allowed one gets its limiter
CheckAllowed(c) ==
  LET q == scraper.calls[c]
  IN  /\ scraper.pc = "on"
      /\ q.pc = "check"
      /\ scraper' =
           IF isAllowed(q.policy, q.op.path)
           THEN [scraper EXCEPT !.calls[c] =
                   [q EXCEPT !.pc = "acquire",
                             !.limiter = getRateLimiter(q.op.domain, <<c, q.k>>)]]
           ELSE [scraper EXCEPT !.calls[c] =
                   [q EXCEPT !.pc = "done", !.result = "nothing"]]
      /\ UNCHANGED <<pipe, world, clock, searchCache, req, call>>

\* await rateLimiter(); axios.get(url): the limiter grants one acquisition
\* per unit of time
ScrapeFetch(c) ==
  LET q == scraper.calls[c]
  IN  /\ scraper.pc = "on"
      /\ q.pc = "acquire"
      /\ \A f \in scraper.log : f.limiter = q.limiter => f.time < clock
      /\ scraper' = [scraper EXCEPT
                       !.log = @ \cup {[domain |-> q.op.domain, time |-> clock,
                                        limiter |-> q.limiter, by |-> <<c, q.k>>]},
                       !.calls[c] = [q EXCEPT !.pc = "done", !.result = "fetched"]]
      /\ UNCHANGED <<pipe, world, clock, searchCache, req, call>>

ScraperInit ==
  /\ world \in { QuietWorld, [QuietWorld EXCEPT !.robotsDisallow = TRUE] }
  /\ clock = 0
  /\ searchCache = << >>
  /\ req = [r \in ReqIds |-> IdleRequest]
  /\ pipe = [pc |-> "off"]
  /\ call = [pc |-> "off"]
  /\ scraper = [pc |-> "on",
                robotsTxtCache |-> [d \in Domains |-> NoPolicy],
                log |-> {},
                calls |-> [c \in Callers |-> IdleCall],
                \* ghost: the first policy a getRobotsTxt of the domain returned
                returned |-> [d \in Domains |-> NoPolicy]]

ScraperNext ==
  \/ \E c \in Callers : \E op \in ScrapeOps : StartScrape(c, op)
  \/ \E c \in Callers : RobotsLookup(c)
  \/ \E c \in Callers : \E ok \in BOOLEAN : RobotsReturn(c, ok)
  \/ \E c \in Callers : CheckAllowed(c)
  \/ \E c \in Callers : ScrapeFetch(c)
  \/ Tick

ScraperSpec == ScraperInit /\ [][ScraperNext]_vars

(***************************************************************************)
(* getCitationNetwork (src/index.js 444-468), called by                    *)
(* app.get('/api/citations/:id') (125-138).                                *)
(***************************************************************************)
CaseIds == {"a", "b", "c"}

\* rows of the citations table: source_id cites target_id
CitationRows ==
  { [source_id |-> "a", target_id |-> "b"], [source_id |-> "b", target_id |-> "a"],
    [source_id |-> "c", target_id |-> "a"], [source_id |-> "a", target_id |-> "c"] }

\* the contents of the citations table tried
MaxCitations == 2

CitationTables == { t \in SUBSET CitationRows : Cardinality(t) <= MaxCitations }

\* .eq('target_id', id) and .eq('source_id', id): {data, error} of a query
\* that fails has data null, here the empty set, and an error
citedByQuery(table, id, fails) ==
  IF fails THEN [data |-> {}, error |-> TRUE]
  ELSE [data |-> { row \in table : row.target_id = id }, error |-> FALSE]

citesQuery(table, id, fails) ==
  IF fails THEN [data |-> {}, error |-> TRUE]
  ELSE [data |-> { row \in table : row.source_id = id }, error |-> FALSE]

\* lines 458-467: either error empties both lists
citationResult(citedBy, cites) ==
  IF citedBy.error \/ cites.error THEN [citedBy |-> {}, cites |-> {}]
  ELSE [citedBy |-> citedBy.data, cites |-> cites.data]

CiteInit ==
  /\ world = QuietWorld
  /\ clock = 0
  /\ searchCache = << >>
  /\ req = [r \in ReqIds |-> IdleRequest]
  /\ pipe = [pc |-> "off"]
  /\ scraper = [pc |-> "off"]
  /\ \E id \in CaseIds, direction \in {"both", "citing", "cited"}, depth \in {1, 2},
        table \in CitationTables, citedByFails \in BOOLEAN, citesFails \in BOOLEAN :
       call = [pc |-> "citedBy", id |-> id, direction |-> direction, depth |-> depth,
               table |-> table, citedByFails |-> citedByFails, citesFails |-> citesFails,
               citedBy |-> [data |-> {}, error |-> FALSE],
               cites |-> [data |-> {}, error |-> FALSE],
               result |-> [citedBy |-> {}, cites |-> {}], status |-> 0,
               \* ghost: the columns the queries that ran compared with id
               queries |-> {}]

\* lines 449-452
CitedByQuery ==
  /\ call.pc = "citedBy"
  /\ call' = [call EXCEPT !.pc = "cites",
                !.citedBy = citedByQuery(call.table, call.id, call.citedByFails),
                !.queries = @ \cup {"target_id"}]
  /\ UNCHANGED <<pipe, world, clock, searchCache, req, scraper>>

\* lines 454-457
CitesQuery ==
  /\ call.pc = "cites"
  /\ call' = [call EXCEPT !.pc = "return",
                !.cites = citesQuery(call.table, call.id, call.citesFails),
                !.queries = @ \cup {"source_id"}]
  /\ UNCHANGED <<pipe, world, clock, searchCache, req, scraper>>

\* lines 459-467, and res.json(citations) of line 134
CiteReturn ==
  /\ call.pc = "return"
  /\ call' = [call EXCEPT !.pc = "done", !.status = 200,
                !.result = citationResult(call.citedBy, call.cites)]
  /\ UNCHANGED <<pipe, world, clock, searchCache, req, scraper>>

CiteNext == CitedByQuery \/ CitesQuery \/ CiteReturn

CiteSpec == CiteInit /\ [][CiteNext]_vars

(***************************************************************************)
(* app.get('/api/case/:id') (src/index.js 94-120) with getCaseFromDatabase *)
(* (178-191), fetchCaseFromExternalSources (517-588) and                   *)
(* storeCaseInDatabase (193-201).  An id is its text as a list of tokens,  *)
(* "-" being a token of its own.                                           *)
(***************************************************************************)
\* String.prototype.split(separator)
RECURSIVE split(_, _)
split(text, separator) ==
  IF \A i \in 1..Len(text) : text[i] # separator THEN <<text>>
  ELSE LET i == CHOOSE j \in 1..Len(text) :
                  text[j] = separator /\ \A k \in 1..(j - 1) : text[k] # separator
       IN  <<SubSeq(text, 1, i - 1)>> \o split(SubSeq(text, i + 1, Len(text)), separator)

\* const [source, sourceId] = id.split('-')
sourceOf(id) == split(id, "-")[1]

sourceIdOf(id) == IF Len(split(id, "-")) >= 2 THEN split(id, "-")[2] ELSE Undefined

\* a dispatch that sends every other prefix to CourtListener
upstreamOfAnyPrefix(source) ==
  CASE source = <<"cap">> -> "api.case.law"
    [] source = <<"pm">> -> "eutils.ncbi.nlm.nih.gov"
    [] OTHER -> "www.courtlistener.com"

\* the upstream the if-chain of lines 522-580 fetches from, "none" when no
\* branch matches
upstreamOf(source) ==
  CASE source = <<"cl">> -> "www.courtlistener.com"
    [] source = <<"cap">> -> "api.case.law"
    [] source = <<"pm">> -> "eutils.ncbi.nlm.nih.gov"
    [] OTHER -> "none"

\* the positions of an element in an upstream's result list
MaxPosition == 1

\* what the search adapters emit ids for: the adapter, the identifier the
\* upstream gives the entity (undefined: a .search-result element without a
\* data-id), and its index in the result list
Emissions ==
  { [adapter |-> a, upstreamId |-> u, position |-> p] :
      a \in {"cl", "cap", "pm"}, u \in { <<"7">> }, p \in 0..MaxPosition }
  \cup { [adapter |-> "stanford", upstreamId |-> u, position |-> p] :
           u \in { <<"75">>, Undefined }, p \in 0..MaxPosition }
  \cup { [adapter |-> "harvard", upstreamId |-> <<"the", "-", "law">>, position |-> p] :
           p \in 0..MaxPosition }

\* the id templates: `cl-${result.id}`, `cap-${result.id}`, `pm-${result.uid}`
\* (lines 360, 372, 384), `stanford-${$(el).data('id') || i}` (line 321),
\* `harvard-${url.split('/').pop()}` (part_001 line 127)
EmittedId(e) ==
  IF e.adapter = "stanford" /\ e.upstreamId = Undefined
  THEN <<"stanford", "-", numberToString(e.position)>>
  ELSE <<e.adapter, "-">> \o e.upstreamId

\* the upstream an adapter searches
AdapterUpstream(adapter) ==
  CASE adapter = "cl" -> "www.courtlistener.com"
    [] adapter = "cap" -> "api.case.law"
    [] adapter = "pm" -> "eutils.ncbi.nlm.nih.gov"
    [] adapter = "stanford" -> "lawreview.stanford.edu"
    [] OTHER -> "harvardlawreview.org"

\* an emission of no adapter, for the ids no search emitted
NoEmission == [adapter |-> "none", upstreamId |-> Undefined, position |-> 0]

OtherIds == { <<"xx", "-", "1">>, <<"uuid">> }

CaseInit ==
  /\ world = QuietWorld
  /\ clock = 0
  /\ searchCache = << >>
  /\ req = [r \in ReqIds |-> IdleRequest]
  /\ pipe = [pc |-> "off"]
  /\ scraper = [pc |-> "off"]
  /\ \E inStore \in BOOLEAN, storeFails \in BOOLEAN, upstreamFails \in BOOLEAN :
       \/ \E e \in Emissions :
            call = [pc |-> "db", id |-> EmittedId(e), emission |-> e,
                    inStore |-> inStore, storeFails |-> storeFails,
                    upstreamFails |-> upstreamFails, caseData |-> "null",
                    requests |-> {}, stored |-> FALSE, status |-> 0]
       \/ \E id \in OtherIds :
            call = [pc |-> "db", id |-> id, emission |-> NoEmission,
                    inStore |-> inStore, storeFails |-> storeFails,
                    upstreamFails |-> upstreamFails, caseData |-> "null",
                    requests |-> {}, stored |-> FALSE, status |-> 0]

\* line 98 and getCaseFromDatabase: the row, or null when there is none or
\* the query fails
GetCaseFromDatabase ==
  /\ call.pc = "db"
  /\ call' = IF call.inStore /\ ~call.storeFails
             THEN [call EXCEPT !.pc = "respond", !.caseData = "row"]
             ELSE [call EXCEPT !.pc = "external"]
  /\ UNCHANGED <<pipe, world, clock, searchCache, req, scraper>>

\* line 102 and fetchCaseFromExternalSources: the branch of the prefix
\* fetches `${sourceId}` from its upstream; an error is caught and gives
\* null; no branch gives null
FetchCaseFromExternalSources ==
  LET upstream == upstreamOf(sourceOf(call.id))
  IN  /\ call.pc = "external"
      /\ call' =
           IF upstream = "none" THEN [call EXCEPT !.pc = "respond"]
           ELSE [call EXCEPT
                   !.requests = @ \cup {[upstream |-> upstream,
                                         sourceId |-> sourceIdOf(call.id)]},
                   !.caseData = IF call.upstreamFails THEN "null" ELSE "fetched",
                   !.pc = IF call.upstreamFails THEN "respond" ELSE "store"]
      /\ UNCHANGED <<pipe, world, clock, searchCache, req, scraper>>

\* lines 105-107 and storeCaseInDatabase: an error is only logged
StoreCaseInDatabase ==
  /\ call.pc = "store"
  /\ call' = [call EXCEPT !.pc = "respond", !.stored = ~call.storeFails]
  /\ UNCHANGED <<pipe, world, clock, searchCache, req, scraper>>

\* lines 110-114
CaseRespond ==
  /\ call.pc = "respond"
  /\ call' = [call EXCEPT !.pc = "done",
                !.status = IF call.caseData = "null" THEN 404 ELSE 200]
  /\ UNCHANGED <<pipe, world, clock, searchCache, req, scraper>>

CaseNext ==
  GetCaseFromDatabase \/ FetchCaseFromExternalSources \/ StoreCaseInDatabase
    \/ CaseRespond

CaseSpec == CaseInit /\ [][CaseNext]_vars

(***************************************************************************)
(* parseFilters (src/index.js 342-356).  A filter string is its text as a  *)
(* list of tokens, "," and ":" being tokens of their own; the mapping is   *)
(* the set of its <<key, value>> pairs.                                    *)
(***************************************************************************)
\* the longest filter string tried
MaxFilterLen == 7

FilterTokens == {"k", "v", ":", ","}

FilterStrings == {Undefined} \cup SeqsUpTo(FilterTokens, MaxFilterLen)

\* const [key, value] = part.split(':')
keyOf(part) == split(part, ":")[1]

valueOf(part) == IF Len(split(part, ":")) >= 2 THEN split(part, ":")[2] ELSE Undefined

\* if (key && value)
keyAndValue(part) ==
  /\ keyOf(part) # << >>
  /\ valueOf(part) # Undefined /\ valueOf(part) # << >>

\* filters[key] = value, when the key keeps the value it has
assignFirstWins(filters, key, value) ==
  IF \E pair \in filters : pair[1] = key THEN filters
  ELSE filters \cup {<<key, value>>}

\* filters[key] = value
assign(filters, key, value) ==
  { pair \in filters : pair[1] # key } \cup {<<key, value>>}

\* filterParts.forEach(...)
RECURSIVE forEachPart(_, _)
forEachPart(filterParts, filters) ==
  IF filterParts = << >> THEN filters
  ELSE forEachPart(Tail(filterParts),
                   IF keyAndValue(Head(filterParts))
                   THEN assign(filters, keyOf(Head(filterParts)),
                               valueOf(Head(filterParts)))
                   ELSE filters)

parseFilters(filterString) ==
  IF filterString = Undefined \/ filterString = << >> THEN {}
  ELSE forEachPart(split(filterString, ","), {})

FilterInit ==
  /\ world = QuietWorld
  /\ clock = 0
  /\ searchCache = << >>
  /\ req = [r \in ReqIds |-> IdleRequest]
  /\ pipe = [pc |-> "off"]
  /\ scraper = [pc |-> "off"]
  /\ \E filterString \in FilterStrings :
       call = [pc |-> "parse", filterString |-> filterString, filters |-> {}]

FilterParse ==
  /\ call.pc = "parse"
  /\ call' = [call EXCEPT !.pc = "done", !.filters = parseFilters(call.filterString)]
  /\ UNCHANGED <<pipe, world, clock, searchCache, req, scraper>>

FilterNext == FilterParse

FilterSpec == FilterInit /\ [][FilterNext]_vars

(***************************************************************************)
(* The filter loop of the scraper module's scrapeAllowedSources            *)
(* (src/unnamed/part_001 455-484), next to parseFilters of the API         *)
(* adapters.  The keys source, court and year are tokens of their own.     *)
(***************************************************************************)
SrcScotus == <<"S", "C">>

\* what the scrapers return: an article of formatStanfordLawResults, which
\* has no court, and an opinion of formatSupremeCourtResults
ScrapedRecords ==
  { [source |-> SrcStanford, court |-> << >>, date |-> <<"2020">>],
    [source |-> SrcScotus, court |-> SrcScotus, date |-> <<"2019">>] }

\* the fragments of the filter strings tried, and how many a string has
FilterFragments ==
  { <<"source", ":", "s", "l">>, <<"source">>, <<"court", ":", "s">>, <<"court">>,
    <<"year", ":", "2020">>, <<"year">>, <<":", "s">>, <<"k", ":", "v">> }

MaxFragments == 2

MaxScraped == 2

RECURSIVE JoinedFragments(_)
JoinedFragments(n) ==
  IF n = 1 THEN FilterFragments
  ELSE JoinedFragments(n - 1)
         \cup { s \o <<",">> \o f : s \in JoinedFragments(n - 1), f \in FilterFragments }

\* value.toLowerCase() throws a TypeError for a fragment without ':' once
\* the callback of filter evaluates it: for the key source on the first
\* record, for the key court on the first record that has a court
fragmentThrows(results, f) ==
  /\ valueOf(f) = Undefined
  /\ \/ keyOf(f) = <<"source">> /\ results # << >>
     \/ keyOf(f) = <<"court">> /\ \E i \in 1..Len(results) : results[i].court # << >>

\* lines 462-476: String.prototype.includes(undefined) looks for the text
\* undefined
applyFragment(results, f) ==
  CASE keyOf(f) = <<"source">> ->
         SelectSeq(results, LAMBDA r : includes(toLowerCase(r.source), toLowerCase(valueOf(f))))
    [] keyOf(f) = <<"court">> ->
         SelectSeq(results, LAMBDA r : r.court # << >>
                                       /\ includes(toLowerCase(r.court), toLowerCase(valueOf(f))))
    [] keyOf(f) = <<"year">> ->
         SelectSeq(results, LAMBDA r : r.date # << >> /\ includes(r.date, valueOf(f)))
    [] OTHER -> results

\* filters.forEach(...), stopped by the first fragment that throws
RECURSIVE filterLoop(_, _)
filterLoop(results, filters) ==
  IF filters = << >> THEN [threw |-> FALSE, results |-> results]
  ELSE IF fragmentThrows(results, Head(filters))
       THEN [threw |-> TRUE, results |-> << >>]
       ELSE filterLoop(applyFragment(results, Head(filters)), Tail(filters))

\* lines 455-484: the catch of line 481 logs the error and returns []
scrapeFilter(allResults, filter) ==
  IF filter = Undefined \/ filter = << >>
  THEN [threw |-> FALSE, results |-> allResults]
  ELSE filterLoop(allResults, split(filter, ","))

ScrapeFilterInit ==
  /\ world = QuietWorld
  /\ clock = 0
  /\ searchCache = << >>
  /\ req = [r \in ReqIds |-> IdleRequest]
  /\ pipe = [pc |-> "off"]
  /\ scraper = [pc |-> "off"]
  /\ \E filter \in {Undefined} \cup JoinedFragments(MaxFragments),
        allResults \in SeqsUpTo(ScrapedRecords, MaxScraped) :
       call = [pc |-> "filter", filter |-> filter, allResults |-> allResults,
               filters |-> {}, filteredResults |-> << >>, threw |-> FALSE]

\* parseFilters(filter) in an API adapter
AdapterParseFilters ==
  /\ call.pc = "filter"
  /\ call' = [call EXCEPT !.pc = "scrape", !.filters = parseFilters(call.filter)]
  /\ UNCHANGED <<pipe, world, clock, searchCache, req, scraper>>

\* the filter loop of the scraper
ScrapeFilter ==
  /\ call.pc = "scrape"
  /\ call' = [call EXCEPT !.pc = "done",
                !.filteredResults = scrapeFilter(call.allResults, call.filter).results,
                !.threw = scrapeFilter(call.allResults, call.filter).threw]
  /\ UNCHANGED <<pipe, world, clock, searchCache, req, scraper>>

ScrapeFilterNext == AdapterParseFilters \/ ScrapeFilter

ScrapeFilterSpec == ScrapeFilterInit /\ [][ScrapeFilterNext]_vars

(***************************************************************************)
(* Properties of the pipeline functions, checked under PipeSpec.           *)
(***************************************************************************)
Indices(list) == 1..Len(list)

\* the claim's (title, court-or-source) pair of a record
PairOf(r) == <<r.title, IF r.court = << >> THEN r.source ELSE r.court>>

\* store before the external APIs (in call order) before scraping
TierRank(tier) ==
  CASE tier = "store" -> 1 [] tier = "cl" -> 2 [] tier = "cap" -> 3
    [] tier = "pm" -> 4 [] OTHER -> 5

Deduplicated == pipe.pc \in {"sort", "paginate", "done"}

Sorted == pipe.pc \in {"paginate", "done"}

\* C1: Dedup priority.  When two records of the merged list have the same
\* (title, court-or-source) pair and come from different tiers, the
\* deduplicated list holds exactly one record with that pair: the first one
\* in merged order, whose tier has the highest priority among them; every
\* later duplicate is discarded.
C1_DedupPriority ==
  Deduplicated =>
    \A i \in Indices(pipe.allResults) : \A j \in Indices(pipe.allResults) :
      LET all == pipe.allResults
          first == CHOOSE f \in Indices(all) :
                     /\ PairOf(all[f]) = PairOf(all[i])
                     /\ \A k \in 1..(f - 1) : PairOf(all[k]) # PairOf(all[i])
          kept == { k \in Indices(pipe.deduped) :
                      PairOf(pipe.deduped[k]) = PairOf(all[i]) }
      IN  (i < j /\ PairOf(all[i]) = PairOf(all[j]) /\ all[i].tier # all[j].tier)
          => /\ Cardinality(kept) = 1
             /\ \A k \in kept : pipe.deduped[k] = all[first]
             /\ TierRank(all[first].tier) <= TierRank(all[j].tier)

\* C2: Dedup key exactness.  deduplicateResults treats two records as
\* duplicates if and only if their titles are equal and their
\* court-or-source strings are equal.
C2_DedupKeyExact ==
  pipe.pc # "merge" =>
    \A i \in Indices(pipe.allResults) : \A j \in Indices(pipe.allResults) :
      i < j =>
        ( (Len(deduplicateResults(<<pipe.allResults[i], pipe.allResults[j]>>)) = 1)
          <=> (PairOf(pipe.allResults[i]) = PairOf(pipe.allResults[j])) )

\* C3: Dedup idempotence.  Deduplicating the deduplicated list gives the
\* same records in the same order, and deduplication never lengthens a list.
C3_DedupIdempotent ==
  Deduplicated =>
    /\ deduplicateResults(pipe.deduped) = pipe.deduped
    /\ Len(pipe.deduped) <= Len(pipe.allResults)

\* a deduplication that dropped a duplicate and kept several records
C3_Witness ==
  /\ Deduplicated
  /\ Len(pipe.deduped) < Len(pipe.allResults)
  /\ Len(pipe.deduped) >= 2

textScore(a, query) == titleScore(a, query) + contentScore(a, query)

HasParseableDate(a) == a.date # "" /\ ~getTime(a.date).nan

\* C4: Text relevance dominates ranking.  Of two records with parseable
\* dates, the comparator orders the one with the strictly higher text-match
\* score first whatever their dates, and where every record of the list has
\* a numeric score it stands first in the sorted list.
C4_TextDominates ==
  Sorted =>
    \A i \in Indices(pipe.sortedResults) : \A j \in Indices(pipe.sortedResults) :
      LET a == pipe.sortedResults[i]
          b == pipe.sortedResults[j]
      IN  ( /\ HasParseableDate(a) /\ HasParseableDate(b)
            /\ textScore(a, pipe.query) > textScore(b, pipe.query) )
          => /\ SortCompare(a, b, pipe.query) < 0
             /\ (\A k \in Indices(pipe.sortedResults) :
                   ~totalScore(pipe.sortedResults[k], pipe.query).nan) => i < j

\* the place of a record in the deduplicated list handed to the sort
PlaceIn(list, r) == CHOOSE k \in Indices(list) : list[k] = r

\* C5: Ranking stability.  The sorted list is in descending total score,
\* and two records with equal total score keep the relative order they had
\* in the deduplicated input.
C5_RankingStable ==
  Sorted =>
    \A i \in Indices(pipe.sortedResults) : \A j \in Indices(pipe.sortedResults) :
      LET a == pipe.sortedResults[i]
          b == pipe.sortedResults[j]
          ta == totalScore(a, pipe.query)
          tb == totalScore(b, pipe.query)
      IN  (i < j /\ ~ta.nan /\ ~tb.nan)
          => /\ ta.v >= tb.v
             /\ ta.v = tb.v => PlaceIn(pipe.deduped, a) < PlaceIn(pipe.deduped, b)

\* C6: Unparseable dates contribute zero recency.  A record whose date is
\* absent, empty or not parseable has a total score equal to its text-match
\* score, and the other records of the list stay in descending score order.
C6_UnparseableDateZero ==
  /\ Deduplicated =>
       \A k \in Indices(pipe.deduped) :
         ~HasParseableDate(pipe.deduped[k]) =>
           totalScore(pipe.deduped[k], pipe.query)
             = Num(10 * textScore(pipe.deduped[k], pipe.query))
  /\ Sorted =>
       \A i \in Indices(pipe.sortedResults) : \A j \in Indices(pipe.sortedResults) :
         ( /\ i < j
           /\ HasParseableDate(pipe.sortedResults[i])
           /\ HasParseableDate(pipe.sortedResults[j]) )
         => totalScore(pipe.sortedResults[i], pipe.query).v
              >= totalScore(pipe.sortedResults[j], pipe.query).v

\* C7: Pagination correctness.  The page holds the ranked records at the
\* 0-based indices [(page-1)*limit, page*limit), total is the length of the
\* ranked list, pages is ceil(total / limit), and a page beyond pages is
\* empty with the same total.
C7_PaginationCorrect ==
  pipe.pc = "done" =>
    LET ranked == pipe.sortedResults
        L == Len(ranked)
        out == pipe.paginatedResults
        start == (pipe.page - 1) * pipe.limit
        count == IF start >= L THEN 0 ELSE Min(L, pipe.page * pipe.limit) - start
    IN  /\ Len(out.results) = count
        /\ \A k \in 1..count : out.results[k] = ranked[start + k]
        /\ out.pagination.total = L
        /\ out.pagination.pages * pipe.limit >= L
        /\ (out.pagination.pages - 1) * pipe.limit < L \/ (L = 0 /\ out.pagination.pages = 0)
        /\ pipe.page > out.pagination.pages => out.results = << >>

\* a page beyond the last one of a non-empty ranked list, and a last page
\* that is not full
C7_Witness ==
  /\ pipe.pc = "done"
  /\ Len(pipe.sortedResults) >= 2
  /\ pipe.page > pipe.paginatedResults.pagination.pages
  /\ pipe.paginatedResults.results = << >>
  /\ pipe.paginatedResults.pagination.total = Len(pipe.sortedResults)

(***************************************************************************)
(* Properties of the search handler, checked under Spec.                   *)
(***************************************************************************)
StoreAndApiCount(q) == Len(q.dbResults) + Len(flat(q.apiResults))

\* C8: Scraping gating.  A request scrapes only after the store query and
\* the three API queries have completed and returned fewer than limit
\* records together; a request whose store and API results reach limit
\* invokes no scraper and fetches nothing from a scraped site.
C8_ScrapingGated ==
  \A r \in ReqIds :
    LET q == req[r]
    IN  /\ "web" \in q.calls =>
             /\ q.doneAtScrape = {"store", "cl", "cap", "pm"}
             /\ StoreAndApiCount(q) < q.limit
        /\ q.fetches # {} => "web" \in q.calls
        /\ (q.pc = "done" /\ q.calls # {} /\ StoreAndApiCount(q) >= q.limit)
             => "web" \notin q.calls /\ q.fetches = {}

\* a request answered from the store and the APIs alone, which filled limit
C8_Witness ==
  \E r \in ReqIds :
    /\ req[r].pc = "done"
    /\ {"store", "cl", "cap", "pm"} \subseteq req[r].calls
    /\ StoreAndApiCount(req[r]) >= req[r].limit
    /\ "web" \notin req[r].calls
    /\ req[r].response.results # << >>

\* C9: Robots compliance.  Every fetch a scraping adapter issues follows a
\* robots check of that URL that answered allowed, and a scraping adapter
\* invoked for a site whose robots policy disallows the search path fetches
\* nothing and returns no record.
C9_RobotsCompliance ==
  \A r \in ReqIds :
    /\ \A f \in req[r].fetches : f.allowed
    /\ (world.robotsDisallow /\ "web" \in req[r].calls /\ req[r].pc = "done")
         => req[r].fetches = {} /\ req[r].webResults = << >>

\* C10: Cache correctness.  A request that arrives while the cache holds an
\* entry for its key no older than maxAge answers with the page object the
\* request that stored the entry answered with, and invokes no adapter; a
\* request that finds no such entry (never stored, expired or evicted)
\* invokes the adapters again.
C10_CacheCorrect ==
  /\ [](\A r \in ReqIds :
          /\ (req[r].pc = "done" /\ req[r].lookup = "live")
               => req[r].calls = {} /\ req[r].fetches = {}
          /\ (req[r].pc \in {"api", "scrape", "done"} /\ req[r].lookup # "live")
               => {"store", "cl", "cap", "pm"} \subseteq req[r].calls)
  /\ [][\A r \in ReqIds :
          (req'[r] # req[r] /\ req[r].pc \in {"idle", "done"}) =>
            LET hits == EntriesOf(searchCache, req'[r].cacheKey)
            IN  IF hits # << >> /\ clock - hits[1].now <= maxAge
                THEN /\ req'[r].pc = "done"
                     /\ req'[r].lookup = "live"
                     /\ req'[r].response = hits[1].sent
                     /\ req'[r].response.pagination.page = req'[r].page
                     /\ req'[r].response.pagination.limit = req'[r].limit
                     /\ req'[r].calls = {}
                ELSE /\ req'[r].pc = "db"
                     /\ req'[r].lookup # "live"
                     /\ "store" \in req'[r].calls]_vars

\* one request answered from a live entry with a page that holds records,
\* while another, whose entry had expired or been evicted, queries the store
C10_Witness ==
  \E r \in ReqIds : \E o \in ReqIds :
    /\ req[r].pc = "done" /\ req[r].lookup = "live"
    /\ req[r].response.results # << >>
    /\ req[o].lookup \in {"expired", "evicted"}
    /\ "store" \in req[o].calls

\* C11: Partial upstream failure never aborts a search.  Every answered
\* request has status 200, and no record of a source whose call failed or
\* whose body was malformed is among the records it merged.
C11_NeverAborts ==
  \A r \in ReqIds :
    req[r].pc = "done" =>
      /\ req[r].status = 200
      /\ \A i \in 1..Len(req[r].allResults) :
           world.fault[req[r].allResults[i].tier] = "ok"

\* C12: Deterministic merge order.  Whatever the order in which the three
\* API calls complete, the list handed to deduplicateResults is the store's
\* records, then CourtListener's, Caselaw's, PubMed's, then the scraped ones.
C12_MergeOrder ==
  \A r \in ReqIds :
    LET q == req[r]
    IN  (q.pc = "done" /\ q.lookup # "live") =>
          q.allResults =
            searchInternalDatabase(q.query, q.filter, q.page, q.limit)
              \o searchApi(1) \o searchApi(2) \o searchApi(3)
              \o (IF "web" \in q.calls
                  THEN scrapeAllowedSources(q.query, q.filter) ELSE << >>)

\* a request one of whose API calls completed before an earlier one of the
\* array, and which merged records of CourtListener and of PubMed
C12_Witness ==
  \E r \in ReqIds :
    /\ req[r].pc = "done" /\ req[r].status = 200
    /\ req[r].outOfOrder
    /\ \E i, j \in 1..Len(req[r].allResults) :
         /\ req[r].allResults[i].tier = "cl"
         /\ req[r].allResults[j].tier = "pm"

(***************************************************************************)
(* Properties of the scraper module, checked under ScraperSpec.            *)
(***************************************************************************)
\* C13: Per-domain limiters are shared.  All fetches of one domain, the
\* domains the rate table lacks included, went through one limiter
\* instance, and no two of them were issued within one unit of time.
C13_SharedLimiters ==
  \A f \in scraper.log : \A g \in scraper.log :
    (f.domain = g.domain /\ f # g) =>
      /\ f.limiter = g.limiter
      /\ f.time # g.time

\* C14: Every external API adapter is rate limited.  Each call of an API
\* adapter that has settled issued exactly one HTTP request, after
\* acquiring the rate limiter of its upstream.  (Checked under Spec.)
C14_ApiRateLimited ==
  \A r \in ReqIds : \A a \in {1, 2, 3} :
    req[r].http[a].requests # 0 =>
      /\ req[r].http[a].requests = 1
      /\ req[r].http[a].acquired

\* C15: Robots policy lookup never fails and is memoized.  getRobotsTxt
\* always returns a policy, the fallback (which allows every path) when the
\* fetch or the parse failed; and a call that begins after a call for its
\* domain has returned fetches nothing and returns the policy object that
\* call returned.  (Checked under ScraperSpec.)
C15_RobotsMemoized ==
  \A c \in Callers :
    LET q == scraper.calls[c]
    IN  q.pc \in {"check", "acquire", "done"} =>
          /\ q.policy # NoPolicy
          /\ q.policy.kind = "fallback" => isAllowed(q.policy, q.op.path)
          /\ q.late => /\ ~q.fetchedRobots
                       /\ q.policy = scraper.returned[q.op.domain]

(***************************************************************************)
(* Properties of getCitationNetwork, checked under CiteSpec.               *)
(***************************************************************************)
\* C16: Citation direction filtering.  A call that has returned ran only
\* the lookups its direction selects: for 'citing' only the source_id = id
\* query, with citedBy empty; for 'cited' only the target_id = id query,
\* with cites empty; for 'both' both queries; and for every depth the
\* result holds only edges one of whose ends is id.
C16_DirectionFilter ==
  call.pc = "done" =>
    /\ call.direction = "citing" =>
         call.queries = {"source_id"} /\ call.result.citedBy = {}
    /\ call.direction = "cited" =>
         call.queries = {"target_id"} /\ call.result.cites = {}
    /\ call.direction = "both" => call.queries = {"source_id", "target_id"}
    /\ \A row \in call.result.citedBy : row.target_id = call.id
    /\ \A row \in call.result.cites : row.source_id = call.id

\* C17: Citation lookup failures are isolated per direction.  When exactly
\* one of the two queries failed, the result holds no edge for the failed
\* direction and all the store's edges for the other, and the call answers
\* with status 200.
C17_FailureIsolated ==
  call.pc = "done" =>
    /\ call.status = 200
    /\ (call.citedByFails /\ ~call.citesFails) =>
         /\ call.result.citedBy = {}
         /\ call.result.cites = { row \in call.table : row.source_id = call.id }
    /\ (call.citesFails /\ ~call.citedByFails) =>
         /\ call.result.cites = {}
         /\ call.result.citedBy = { row \in call.table : row.target_id = call.id }

(***************************************************************************)
(* Properties of the case endpoint, checked under CaseSpec.                *)
(***************************************************************************)
\* C18: fetchOne not-found is not an error.  For an id the store has no
\* row for, whose prefix no branch dispatches or whose upstream fetch
\* fails, fetchCaseFromExternalSources gives null, the endpoint answers
\* 404, and for an undispatched prefix no upstream request is issued.
C18_NotFoundIsNotAnError ==
  (call.pc = "done" /\ ~call.inStore) =>
    /\ (upstreamOf(sourceOf(call.id)) = "none" \/ call.upstreamFails) =>
         call.caseData = "null" /\ call.status = 404
    /\ sourceOf(call.id) \notin {<<"cl">>, <<"cap">>, <<"pm">>} =>
         call.requests = {}
    /\ call.status \in {200, 404}

\* an id with a prefix no branch dispatches, answered 404
C18_Witness ==
  /\ call.pc = "done" /\ ~call.inStore
  /\ call.id = <<"xx", "-", "1">>
  /\ call.status = 404

\* C19: Every id produced by search is re-fetchable and stable.  For an id
\* a search adapter emitted, a fetch that the store cannot answer requests
\* the adapter's upstream with the complete identifier that follows the
\* prefix; and the id does not depend on the position of the entity in the
\* upstream's result list.
C19_IdsRefetchableAndStable ==
  call.emission # NoEmission =>
    /\ \A p \in 0..MaxPosition :
         EmittedId([call.emission EXCEPT !.position = p]) = call.id
    /\ (call.pc = "done" /\ ~call.inStore) =>
         \E request \in call.requests :
           /\ request.upstream = AdapterUpstream(call.emission.adapter)
           /\ <<call.emission.adapter, "-">> \o request.sourceId = call.id

(***************************************************************************)
(* Properties of parseFilters, checked under FilterSpec.  A fragment is    *)
(* well formed when it has a key and a value: non-empty text before its    *)
(* first ':' and between its first and its second.                         *)
(***************************************************************************)
\* C20: Filter parsing, last duplicate wins.  The mapping parseFilters
\* returns holds, for each key of a well-formed fragment, the value of the
\* last well-formed fragment with that key, and nothing else; an absent or
\* empty filter string gives the empty mapping.
C20_LastDuplicateWins ==
  call.pc = "done" =>
    IF call.filterString = Undefined \/ call.filterString = << >>
    THEN call.filters = {}
    ELSE LET parts == split(call.filterString, ",")
             WellFormed == { i \in 1..Len(parts) : keyAndValue(parts[i]) }
             Last == { i \in WellFormed :
                         \A j \in WellFormed : j > i => keyOf(parts[j]) # keyOf(parts[i]) }
         IN  call.filters = { <<keyOf(parts[i]), valueOf(parts[i])>> : i \in Last }

\* a parsed string with two well-formed fragments of one key and different
\* values
C20_Witness ==
  /\ call.pc = "done"
  /\ call.filterString # Undefined
  /\ LET parts == split(call.filterString, ",")
     IN  \E i, j \in 1..Len(parts) :
           /\ i < j
           /\ keyAndValue(parts[i]) /\ keyAndValue(parts[j])
           /\ keyOf(parts[i]) = keyOf(parts[j])
           /\ valueOf(parts[i]) # valueOf(parts[j])

(***************************************************************************)
(* Properties of the two filter parsers, checked under ScrapeFilterSpec.   *)
(***************************************************************************)
\* C21: Malformed filter fragments are silently dropped.  In parseFilters
\* and in the filter loop of the scraper, the fragments that lack a key or
\* a value raise no error and change nothing: the mapping and the filtered
\* records are those of the well-formed fragments alone.
C21_MalformedDropped ==
  (call.pc = "done" /\ call.filter # Undefined) =>
    LET wellFormed == SelectSeq(split(call.filter, ","), keyAndValue)
    IN  /\ call.filters = forEachPart(wellFormed, {})
        /\ ~call.threw
        /\ call.filteredResults = filterLoop(call.allResults, wellFormed).results

(***************************************************************************)
(* Properties of the persistence of a search, checked under PipeSpec.      *)
(***************************************************************************)
\* C22: Persistence never affects the response.  storeResultsInDatabase is
\* called with all the deduplicated records, whatever the page; the page is
\* sent with status 200 while the upsert is pending, and the response stays
\* that page when the upsert succeeds and when it fails.
C22_SinkNeverAffectsResponse ==
  pipe.pc \in {"sent", "settled"} =>
    /\ Len(pipe.sinkArgument) = Len(pipe.deduped)
    /\ \A i \in 1..Len(pipe.deduped) :
         \E j \in 1..Len(pipe.sinkArgument) : pipe.sinkArgument[j] = pipe.deduped[i]
    /\ pipe.status = 200
    /\ pipe.response = pipe.paginatedResults
    /\ pipe.pc = "sent" => pipe.sink \in {"pending", "none"}
    /\ pipe.pc = "settled" => pipe.sink \in {"stored", "logged"}

\* the upsert of a set larger than the page failed after the page was sent
C22_Witness ==
  /\ pipe.pc = "settled" /\ pipe.sink = "logged"
  /\ Len(pipe.sinkArgument) > Len(pipe.response.results)
  /\ pipe.response.results # << >>

\* C23: Store-origin records are never re-written.  The batch that
\* storeResultsInDatabase upserts holds no record that came from
\* searchInternalDatabase, and no upsert is issued when every deduplicated
\* record came from the store.
C23_StoreRecordsNotRewritten ==
  pipe.pc \in {"sent", "settled"} =>
    /\ \A i \in 1..Len(pipe.newResults) : pipe.newResults[i].tier # "store"
    /\ (\A i \in 1..Len(pipe.deduped) : pipe.deduped[i].tier = "store")
         => pipe.sink = "none"

(***************************************************************************)
(* Properties of the cache key, checked under KeySpec.                     *)
(***************************************************************************)
\* C24: Cache hits are exact-key only.  A request answered from searchCache
\* has the (query, filter, page, limit) of the request that stored the
\* entry it was answered from, whatever the strings query and filter are.
C24_ExactKeyOnly ==
  \A r \in ReqIds :
    (req[r].pc = "done" /\ req[r].lookup = "live") =>
      \A i \in 1..Len(searchCache) :
        searchCache[i].key = req[r].cacheKey =>
          searchCache[i].tuple
            = <<req[r].query, req[r].filter, req[r].page, req[r].limit>>

(***************************************************************************)
(* Properties of the pages of a search, checked under PageSpec.            *)
(***************************************************************************)
\* the rankings of all the records that match: every row of the store,
\* what the APIs return, and what the scraper returns when it is called
RankingsOfAll(query, filter) ==
  UNION { sortResultsByRelevance(
            deduplicateResults(
              mergeResults(world.rows, <<searchApi(1), searchApi(2), searchApi(3)>>,
                           webResults)),
            query) :
          webResults \in {<< >>, scrapeAllowedSources(query, filter)} }

\* C25: Pages partition the full ranked result.  The results of page p of a
\* search are the records at ranks [(p-1)*limit, p*limit) of a ranking of
\* the deduplicated list of all matching records, the rows of the store
\* included, and pagination.total is the length of that list on every page.
C25_PagesPartition ==
  \A r \in ReqIds :
    (req[r].pc = "done" /\ req[r].status = 200) =>
      \E ranked \in RankingsOfAll(req[r].query, req[r].filter) :
        /\ req[r].response.results
             = slice(ranked, (req[r].page - 1) * req[r].limit,
                     req[r].page * req[r].limit)
        /\ req[r].response.pagination.total = Len(ranked)

(***************************************************************************)
(* Properties of concurrent calls of getRobotsTxt, checked under           *)
(* ScraperSpec.                                                            *)
(***************************************************************************)
\* C26: Single robots.txt fetch per domain under concurrency.  Of two
\* callers' scrapes of one domain at most one fetched robots.txt, and when
\* getRobotsTxt has returned to both it returned the same policy object.
C26_SingleRobotsFetch ==
  \A c \in Callers : \A d \in Callers :
    LET p == scraper.calls[c]
        q == scraper.calls[d]
    IN  (c # d /\ p.pc # "idle" /\ q.pc # "idle" /\ p.op.domain = q.op.domain) =>
          /\ ~(p.fetchedRobots /\ q.fetchedRobots)
          /\ (p.policy # NoPolicy /\ q.policy # NoPolicy) => p.policy = q.policy

=============================================================================
